---- MODULE Spec2Model ----
(***************************************************************************)
(* State-machine model of scripts/collect_github_stats.py: the five        *)
(* per-endpoint collectors appending to the raw CSV tables, the three      *)
(* aggregators regenerating summary.csv, monthly.csv and summary.json,     *)
(* and main() driving them over TARGET_REPOS.                              *)
(*                                                                         *)
(* A Python string is modelled as a sequence of tokens (<<>> is ""), so    *)
(* that slicing, splitting, concatenation and lexicographic comparison     *)
(* are computed rather than assumed.  A CSV cell holding a number is the   *)
(* text written by the csv writer; int() parses it back.                   *)
(***************************************************************************)
EXTENDS Integers, Sequences, FiniteSets, TLC

\* ------------------------------------------------------------- bounds
\* Endpoints that answer with data or with an error during one behaviour;
\* every other endpoint answers with an empty list.
MaxUnits == 2

\* ------------------------------------------------------------- strings
\* Character order of the tokens used (ASCII order of their first
\* differing character).
Code(t) ==
  CASE t = "-01" -> 1
    [] t = "-02" -> 2
    [] t = "/" -> 47
    [] t = "2025-01" -> 50
    [] t = "2025-02" -> 51
    [] t = "T00:00:00Z" -> 84
    [] t = "a" -> 97
    [] t = "b" -> 98
    [] t = "g" -> 103
    [] t = "https://github.com" -> 104
    [] t = "o" -> 111
    [] t = "p" -> 112
    [] t = "t" -> 116
    [] t = "v1" -> 118
    [] t = "z" -> 122

\* s < t for Python strings.
RECURSIVE StrLess(_, _)
StrLess(s, t) ==
  IF t = <<>> THEN FALSE
  ELSE IF s = <<>> THEN TRUE
  ELSE IF Head(s) # Head(t) THEN Code(Head(s)) < Code(Head(t))
  ELSE StrLess(Tail(s), Tail(t))

\* max(a, b) of two strings: Python returns the first of two equal ones.
StrMax(a, b) == IF StrLess(a, b) THEN b ELSE a

\* s[:n], counted in tokens.
Prefix(s, n) == SubSeq(s, 1, IF n < Len(s) THEN n ELSE Len(s))

\* s.strip("/")
RECURSIVE LStrip(_)
LStrip(s) == IF s # <<>> /\ Head(s) = "/" THEN LStrip(Tail(s)) ELSE s
RECURSIVE RStrip(_)
RStrip(s) ==
  IF s # <<>> /\ s[Len(s)] = "/" THEN RStrip(SubSeq(s, 1, Len(s) - 1)) ELSE s
Strip(s) == RStrip(LStrip(s))

\* s.split("/", 1): one piece when there is no slash, else two.
SplitFirst(s) ==
  IF \E n \in 1..Len(s) : s[n] = "/"
  THEN LET n == CHOOSE n \in 1..Len(s) :
                  s[n] = "/" /\ \A m \in 1..(n - 1) : s[m] # "/"
       IN <<SubSeq(s, 1, n - 1), SubSeq(s, n + 1, Len(s))>>
  ELSE <<s>>

\* str(n) as written into a CSV cell, and int(cell) reading it back.
str(n) == [digits |-> n]
int(cell) == cell.digits

\* --------------------------------------------------------- parse_repo
Http == "https://github.com"

\* urlparse(raw).path of a URL: what follows scheme and host.
UrlPath(raw) == Tail(raw)

parse_repo(raw) ==
  IF Head(raw) = Http THEN SplitFirst(Strip(UrlPath(raw))) ELSE SplitFirst(raw)

\* "owner, repo = parse_repo(raw)" raises ValueError unless two pieces.
UnpackFails(raw) == Len(parse_repo(raw)) # 2

RepoFull(owner, repo) == owner \o <<"/">> \o repo

\* Configured identifiers.
RawA == <<"o", "/", "a">>
RawB == <<"o", "/", "b">>
UrlA == <<Http, "/", "o", "/", "a", "/">>
RawNoSlash == <<"b">>
UrlNoSlash == <<Http, "/", "o">>

\* Values of TARGET_REPOS considered.
Configs ==
  { <<RawA, RawB>>, <<RawA, UrlA>>, <<UrlA, RawNoSlash, RawB>>,
    <<UrlNoSlash, RawA>> }

\* ------------------------------------------------------------ dates
Jan1 == <<"2025-01", "-01">>
Jan2 == <<"2025-01", "-02">>
Feb1 == <<"2025-02", "-01">>

\* An API bucket timestamp: the calendar date followed by the time.
Timestamp(date) == date \o <<"T00:00:00Z">>

\* timestamp[:10] keeps the date, date[:7] keeps the month.
DateOf(timestamp) == Prefix(timestamp, 2)
MonthOf(date) == Prefix(date, 1)

\* utc_today() advances from one day to the next.
NextDay(d) == IF d = Jan2 THEN Feb1 ELSE d

\* ------------------------------------------------------- COLLECTORS
COLLECTORS ==
  << [name |-> "Views", path |-> "stats/traffic_views.csv",
      key_fields |-> <<"date", "repo">>],
     [name |-> "Clones", path |-> "stats/traffic_clones.csv",
      key_fields |-> <<"date", "repo">>],
     [name |-> "Referrers", path |-> "stats/traffic_referrers.csv",
      key_fields |-> <<"date", "repo", "referrer">>],
     [name |-> "Paths", path |-> "stats/traffic_paths.csv",
      key_fields |-> <<"date", "repo", "path">>],
     [name |-> "Releases", path |-> "stats/releases_daily.csv",
      key_fields |-> <<"date", "repo", "tag", "asset_name">>] >>

NColl == Len(COLLECTORS)
Names == {COLLECTORS[n].name : n \in 1..NColl}
RawPaths == {COLLECTORS[n].path : n \in 1..NColl}
PathOf(name) ==
  COLLECTORS[CHOOSE n \in 1..NColl : COLLECTORS[n].name = name].path
KeyFields(path) ==
  COLLECTORS[CHOOSE n \in 1..NColl : COLLECTORS[n].path = path].key_fields

\* dict.get(k, default)
Get(d, k, default) == IF k \in DOMAIN d THEN d[k] ELSE default

\* -------------------------------------------------- upstream JSON
\* An element of a response that is not a JSON object.
Junk == [junk |-> TRUE]
IsJunk(item) == "junk" \in DOMAIN item

Bucket(date, n, u) == [timestamp |-> Timestamp(date), count |-> n, uniques |-> u]
Referrer(name, n) == [referrer |-> name, count |-> n, uniques |-> 1]
Asset(name, n) == [name |-> name, download_count |-> n]

\* What get(url) can do: raise, or return a list of items.
ErrResp == [st |-> "err"]
OkResp(items) == [st |-> "ok", items |-> items]
Unknown == [st |-> "unknown"]

\* Non-empty answers of the traffic/views endpoint: a repeated day with a
\* different count; a bucket without "count" between two good ones.
ViewAnswers ==
  { OkResp(<<Bucket(Jan1, 1, 1), Bucket(Jan1, 2, 1), Bucket(Jan2, 2, 1)>>),
    OkResp(<<Bucket(Jan1, 2, 1), [timestamp |-> Timestamp(Jan2)],
             Bucket(Jan2, 2, 1)>>) }

CloneAnswers ==
  { OkResp(<<Bucket(Jan1, 1, 1), Bucket(Jan2, 2, 1)>>) }

\* The same referrer twice with different counts; an item without
\* "referrer"; a non-object element.
ReferrerAnswers ==
  { OkResp(<<Referrer(<<"g">>, 1), Referrer(<<"g">>, 2),
             [count |-> 1, uniques |-> 1], Junk>>) }

\* The same path twice, then an item without "count".
PathAnswers ==
  { OkResp(<< [path |-> <<"/", "p">>, title |-> <<"t">>, count |-> 1,
               uniques |-> 1],
              [path |-> <<"/", "p">>, count |-> 2, uniques |-> 1],
              [path |-> <<"/", "a">>] >>) }

\* A release with two assets, one without "download_count"; a release
\* without "assets"; the first asset again with another count; a non-object
\* element.  Or the request fails.
ReleaseAnswers ==
  { OkResp(<< [tag_name |-> <<"v1">>,
               assets |-> <<Asset(<<"z">>, 1), [name |-> <<"a">>]>>],
              [tag_name |-> <<"v1">>],
              [tag_name |-> <<"v1">>, assets |-> <<Asset(<<"z">>, 2)>>],
              Junk >>),
    ErrResp }

AnswersOf(name) ==
  CASE name = "Views" -> ViewAnswers
    [] name = "Clones" -> CloneAnswers
    [] name = "Referrers" -> ReferrerAnswers
    [] name = "Paths" -> PathAnswers
    [] name = "Releases" -> ReleaseAnswers

\* What an endpoint not observed yet may answer when n more endpoints may
\* still hold data.
Responses(name, n) ==
  {OkResp(<<>>)} \cup (IF n >= 1 THEN AnswersOf(name) ELSE {})
Cost(resp) == IF resp = OkResp(<<>>) THEN 0 ELSE 1

\* The nested loops of collect_releases visit (release, asset) pairs in
\* this order; a non-object release fails when the outer loop reaches it.
RECURSIVE Flatten(_)
Flatten(releases) ==
  IF releases = <<>> THEN <<>>
  ELSE LET rel == Head(releases)
           assets == Get(rel, "assets", <<>>)
       IN (IF IsJunk(rel) THEN <<Junk>>
           ELSE [n \in 1..Len(assets) |->
                   [tag |-> Get(rel, "tag_name", <<>>), asset |-> assets[n]]])
          \o Flatten(Tail(releases))

\* The list a collector iterates over.
Iterated(name, resp) ==
  IF name = "Releases" THEN Flatten(resp.items) ELSE resp.items

\* ------------------------------------------------- dedup key store
\* tuple(row.get(k, "") for k in key_fields)
KeyOf(path, row) ==
  LET kf == KeyFields(path) IN [n \in 1..Len(kf) |-> Get(row, kf[n], <<>>)]

\* The key store is not read.
load_no_keys(rows, path) == {}

load_existing_keys(rows, path) == {KeyOf(path, rows[n]) : n \in 1..Len(rows)}

\* The membership test never succeeds.
KnownKeyNever(keys, key) == FALSE

\* "key in existing_keys"
KnownKey(keys, key) == key \in keys

\* The key of an appended row is not remembered.
AddKeyForgets(keys, key) == keys

\* existing_keys.add(key)
AddKey(keys, key) == keys \cup {key}

\* The file is opened with "w" instead of "a".
append_csv_truncating(rows, row) == <<row>>

\* append_csv: open(path, "a") and write one row.
append_csv(rows, row) == Append(rows, row)

\* ------------------------------------------------ collector loop body
Raise == [kind |-> "raise"]
Skip == [kind |-> "skip"]
Add(key, row) == [kind |-> "append", key |-> key, row |-> row]
HasCounts(item) == "count" \in DOMAIN item /\ "uniques" \in DOMAIN item

ViewsBody(v, repo_full, keys) ==
  IF IsJunk(v) \/ "timestamp" \notin DOMAIN v THEN Raise
  ELSE LET date == DateOf(v.timestamp)
       IN IF KnownKey(keys, <<date, repo_full>>) THEN Skip
          ELSE IF ~HasCounts(v) THEN Raise
          ELSE Add(<<date, repo_full>>,
                   [date |-> date, repo |-> repo_full,
                    views |-> str(v.count),
                    unique_visitors |-> str(v.uniques)])

ClonesBody(c, repo_full, keys) ==
  IF IsJunk(c) \/ "timestamp" \notin DOMAIN c THEN Raise
  ELSE LET date == DateOf(c.timestamp)
       IN IF KnownKey(keys, <<date, repo_full>>) THEN Skip
          ELSE IF ~HasCounts(c) THEN Raise
          ELSE Add(<<date, repo_full>>,
                   [date |-> date, repo |-> repo_full,
                    clones |-> str(c.count),
                    unique_cloners |-> str(c.uniques)])

ReferrersBody(r, repo_full, day, keys) ==
  IF IsJunk(r) THEN Raise
  ELSE LET referrer == Get(r, "referrer", <<>>)
       IN IF KnownKey(keys, <<day, repo_full, referrer>>) THEN Skip
          ELSE IF ~HasCounts(r) THEN Raise
          ELSE Add(<<day, repo_full, referrer>>,
                   [date |-> day, repo |-> repo_full, referrer |-> referrer,
                    views |-> str(r.count),
                    unique_visitors |-> str(r.uniques)])

PathsBody(q, repo_full, day, keys) ==
  IF IsJunk(q) THEN Raise
  ELSE LET path == Get(q, "path", <<>>)
       IN IF KnownKey(keys, <<day, repo_full, path>>) THEN Skip
          ELSE IF ~HasCounts(q) THEN Raise
          ELSE Add(<<day, repo_full, path>>,
                   [date |-> day, repo |-> repo_full, path |-> path,
                    title |-> Get(q, "title", <<>>),
                    views |-> str(q.count),
                    unique_visitors |-> str(q.uniques)])

ReleasesBody(x, repo_full, day, keys) ==
  IF IsJunk(x) \/ IsJunk(x.asset) THEN Raise
  ELSE LET asset_name == Get(x.asset, "name", <<>>)
       IN IF KnownKey(keys, <<day, repo_full, x.tag, asset_name>>) THEN Skip
          ELSE Add(<<day, repo_full, x.tag, asset_name>>,
                   [date |-> day, repo |-> repo_full, tag |-> x.tag,
                    asset_name |-> asset_name,
                    download_count |->
                      str(Get(x.asset, "download_count", 0))])

\* One iteration of the loop of collector `name` on `item`.
Body(name, item, repo_full, day, keys) ==
  CASE name = "Views" -> ViewsBody(item, repo_full, keys)
    [] name = "Clones" -> ClonesBody(item, repo_full, keys)
    [] name = "Referrers" -> ReferrersBody(item, repo_full, day, keys)
    [] name = "Paths" -> PathsBody(item, repo_full, day, keys)
    [] name = "Releases" -> ReleasesBody(item, repo_full, day, keys)

\* --------------------------------------------------------- aggregators
\* sorted() of a set of strings, and of a set of (string, string) tuples.
RECURSIVE SortedStrs(_)
SortedStrs(S) ==
  IF S = {} THEN <<>>
  ELSE LET m == CHOOSE x \in S : \A y \in S \ {x} : StrLess(x, y)
       IN <<m>> \o SortedStrs(S \ {m})

PairLess(a, b) ==
  StrLess(a[1], b[1]) \/ (a[1] = b[1] /\ StrLess(a[2], b[2]))

RECURSIVE SortedPairs(_)
SortedPairs(S) ==
  IF S = {} THEN <<>>
  ELSE LET m == CHOOSE x \in S : \A y \in S \ {x} : PairLess(x, y)
       IN <<m>> \o SortedPairs(S \ {m})

\* defaultdict access: the entry of key k, created from dflt when absent.
Touch(d, k, dflt) == IF k \in DOMAIN d THEN d ELSE (k :> dflt) @@ d

\* int(row.get(field, 0))
IntField(row, field) == int(Get(row, field, str(0)))

NewTotals ==
  [total_views |-> 0, total_unique_visitors |-> 0, total_clones |-> 0,
   total_unique_cloners |-> 0, total_downloads |-> 0, last_date |-> <<>>]

\* The three loops of generate_summary, one row at a time.
RECURSIVE SummaryViews(_, _)
SummaryViews(rows, totals) ==
  IF rows = <<>> THEN totals
  ELSE LET row == Head(rows)
           t == Touch(totals, row.repo, NewTotals)
       IN SummaryViews(Tail(rows),
            [t EXCEPT ![row.repo] =
               [@ EXCEPT !.total_views = @ + IntField(row, "views"),
                         !.total_unique_visitors =
                            @ + IntField(row, "unique_visitors"),
                         !.last_date = StrMax(@, row.date)]])

RECURSIVE SummaryClones(_, _)
SummaryClones(rows, totals) ==
  IF rows = <<>> THEN totals
  ELSE LET row == Head(rows)
           t == Touch(totals, row.repo, NewTotals)
       IN SummaryClones(Tail(rows),
            [t EXCEPT ![row.repo] =
               [@ EXCEPT !.total_clones = @ + IntField(row, "clones"),
                         !.total_unique_cloners =
                            @ + IntField(row, "unique_cloners"),
                         !.last_date = StrMax(@, row.date)]])

\* The releases table is left out of the summary.
SummaryReleasesSkipped(rows, totals) == totals

RECURSIVE SummaryReleases(_, _)
SummaryReleases(rows, totals) ==
  IF rows = <<>> THEN totals
  ELSE LET row == Head(rows)
           t == Touch(totals, row.repo, NewTotals)
       IN SummaryReleases(Tail(rows),
            [t EXCEPT ![row.repo] =
               [@ EXCEPT !.total_downloads =
                            @ + IntField(row, "download_count"),
                         !.last_date = StrMax(@, row.date)]])

\* A row of summary.csv as the csv writer stores it.
SummaryRow(repo, v) ==
  [repo |-> repo,
   total_views |-> str(v.total_views),
   total_unique_visitors |-> str(v.total_unique_visitors),
   total_clones |-> str(v.total_clones),
   total_unique_cloners |-> str(v.total_unique_cloners),
   total_downloads |-> str(v.total_downloads),
   last_date |-> v.last_date]

\* The rows generate_summary writes, given the raw tables.
generate_summary(f) ==
  LET totals ==
        SummaryReleases(f["stats/releases_daily.csv"],
          SummaryClones(f["stats/traffic_clones.csv"],
            SummaryViews(f["stats/traffic_views.csv"], <<>>)))
      order == SortedStrs(DOMAIN totals)
  IN [n \in 1..Len(order) |-> SummaryRow(order[n], totals[order[n]])]

NewBucket ==
  [views |-> 0, unique_visitors |-> 0, clones |-> 0, unique_cloners |-> 0,
   downloads |-> 0]

RECURSIVE MonthlyViews(_, _)
MonthlyViews(rows, buckets) ==
  IF rows = <<>> THEN buckets
  ELSE LET row == Head(rows)
           k == <<row.repo, MonthOf(row.date)>>
           b == Touch(buckets, k, NewBucket)
       IN MonthlyViews(Tail(rows),
            [b EXCEPT ![k] =
               [@ EXCEPT !.views = @ + IntField(row, "views"),
                         !.unique_visitors =
                            @ + IntField(row, "unique_visitors")]])

RECURSIVE MonthlyClones(_, _)
MonthlyClones(rows, buckets) ==
  IF rows = <<>> THEN buckets
  ELSE LET row == Head(rows)
           k == <<row.repo, MonthOf(row.date)>>
           b == Touch(buckets, k, NewBucket)
       IN MonthlyClones(Tail(rows),
            [b EXCEPT ![k] =
               [@ EXCEPT !.clones = @ + IntField(row, "clones"),
                         !.unique_cloners =
                            @ + IntField(row, "unique_cloners")]])

RECURSIVE MonthlyReleases(_, _)
MonthlyReleases(rows, buckets) ==
  IF rows = <<>> THEN buckets
  ELSE LET row == Head(rows)
           k == <<row.repo, MonthOf(row.date)>>
           b == Touch(buckets, k, NewBucket)
       IN MonthlyReleases(Tail(rows),
            [b EXCEPT ![k] =
               [@ EXCEPT !.downloads = @ + IntField(row, "download_count")]])

MonthlyRow(k, v) ==
  [repo |-> k[1], month |-> k[2],
   views |-> str(v.views), unique_visitors |-> str(v.unique_visitors),
   clones |-> str(v.clones), unique_cloners |-> str(v.unique_cloners),
   downloads |-> str(v.downloads)]

\* The rows generate_monthly writes, given the raw tables.
generate_monthly(f) ==
  LET buckets ==
        MonthlyReleases(f["stats/releases_daily.csv"],
          MonthlyClones(f["stats/traffic_clones.csv"],
            MonthlyViews(f["stats/traffic_views.csv"], <<>>)))
      order == SortedPairs(DOMAIN buckets)
  IN [n \in 1..Len(order) |-> MonthlyRow(order[n], buckets[order[n]])]

\* The four loops of generate_json.
RECURSIVE JsonRepos(_, _)
JsonRepos(rows, repos) ==
  IF rows = <<>> THEN repos
  ELSE LET row == Head(rows)
           entry ==
             [total_views |-> IntField(row, "total_views"),
              total_unique_visitors |->
                IntField(row, "total_unique_visitors"),
              total_clones |-> IntField(row, "total_clones"),
              total_unique_cloners |-> IntField(row, "total_unique_cloners"),
              total_downloads |-> IntField(row, "total_downloads"),
              daily_views |-> <<>>, daily_clones |-> <<>>, monthly |-> <<>>]
       IN JsonRepos(Tail(rows), (row.repo :> entry) @@ repos)

\* "if repo in data['repos']"
InExport(repos, repo) == repo \in DOMAIN repos

\* The daily view series is never filled.
JsonViewsSkipped(rows, repos) == repos

RECURSIVE JsonViews(_, _)
JsonViews(rows, repos) ==
  IF rows = <<>> THEN repos
  ELSE LET row == Head(rows)
       IN JsonViews(Tail(rows),
            IF InExport(repos, row.repo)
            THEN [repos EXCEPT ![row.repo].daily_views =
                    Append(@, [date |-> row.date,
                               views |-> IntField(row, "views"),
                               unique |-> IntField(row, "unique_visitors")])]
            ELSE repos)

RECURSIVE JsonClones(_, _)
JsonClones(rows, repos) ==
  IF rows = <<>> THEN repos
  ELSE LET row == Head(rows)
       IN JsonClones(Tail(rows),
            IF InExport(repos, row.repo)
            THEN [repos EXCEPT ![row.repo].daily_clones =
                    Append(@, [date |-> row.date,
                               clones |-> IntField(row, "clones"),
                               unique |-> IntField(row, "unique_cloners")])]
            ELSE repos)

RECURSIVE JsonMonthly(_, _)
JsonMonthly(rows, repos) ==
  IF rows = <<>> THEN repos
  ELSE LET row == Head(rows)
       IN JsonMonthly(Tail(rows),
            IF InExport(repos, row.repo)
            THEN [repos EXCEPT ![row.repo].monthly =
                    Append(@, [month |-> row.month,
                               views |-> IntField(row, "views"),
                               clones |-> IntField(row, "clones"),
                               downloads |-> IntField(row, "downloads")])]
            ELSE repos)

\* The document generate_json writes, given the files it reads.
generate_json(summary, views, clones, monthly, day) ==
  [generated |-> day,
   repos |-> JsonMonthly(monthly,
               JsonClones(clones,
                 JsonViews(views, JsonRepos(summary, <<>>))))]

\* --------------------------------------------------------------- state
Procs == {1, 2}

VARIABLES
  TARGET_REPOS,  \* the configured identifiers, read once from the environment
  today,         \* what utc_today() returns now
  api,           \* upstream: endpoint -> response, as far as it was observed
  units,         \* upstream data invented so far
  files,         \* raw table path -> its rows, in file order
  summary_csv,   \* rows of stats/summary.csv
  monthly_csv,   \* rows of stats/monthly.csv
  summary_json,  \* the document in stats/summary.json
  proc,          \* per invocation of main: its position and local variables
  obs,           \* per invocation: what it saw at its start and during calls
  win,           \* since upstream last changed: the tables then, the runs since
  overlapped     \* some invocation started while another was running

vars ==
  <<TARGET_REPOS, today, api, units, files, summary_csv, monthly_csv,
    summary_json, proc, obs, win, overlapped>>

\* Every repository the configurations can name, and its endpoints.
Configured == UNION {{c[n] : n \in 1..Len(c)} : c \in Configs}
Repos ==
  {RepoFull(parse_repo(raw)[1], parse_repo(raw)[2]) :
     raw \in {x \in Configured : ~UnpackFails(x)}}
Endpoints == Repos \X Names

Exited == {"idle", "done", "aborted", "killed"}
Running(p) == proc[p].pc \notin Exited

NoKeys == [n \in Names |-> {}]
Local(pc) ==
  [pc |-> pc, i |-> 0, c |-> 0, k |-> 0, repo_full |-> <<>>, items |-> <<>>,
   day |-> <<>>, all_keys |-> NoKeys]
NoCall == [out |-> "none"]
NoObs ==
  [after |-> "none", derived0 |-> <<>>, added |-> 0, skipped |-> 0,
   aggs |-> {}, invoked |-> {}, failed |-> {}, appended |-> {},
   len0 |-> 0, keys0 |-> {}, last |-> NoCall]

NewWindow(f) ==
  [base |-> f, prev |-> "none", killed |-> FALSE, killedWrote |-> FALSE]

EmptyJson == [generated |-> <<>>, repos |-> <<>>]

\* A summary.csv left behind by something else: a repository with no raw rows.
StaleSummary ==
  << SummaryRow(<<"o", "/", "z">>, [NewTotals EXCEPT !.total_views = 2]) >>

\* Nothing observed upstream yet, no invocation of main yet.
Fresh ==
  /\ today = Jan2
  /\ api = [e \in Endpoints |-> Unknown]
  /\ units = 0
  /\ proc = [p \in Procs |-> Local("idle")]
  /\ obs = [p \in Procs |-> NoObs]
  /\ win = NewWindow(files)
  /\ overlapped = FALSE

\* No raw table yet; a summary.csv that does not reflect them.
Init ==
  /\ TARGET_REPOS \in Configs
  /\ files = [q \in RawPaths |-> <<>>]
  /\ summary_csv = StaleSummary
  /\ monthly_csv = <<>>
  /\ summary_json = EmptyJson
  /\ Fresh

\* ------------------------------------------------------------- main
\* Every run starts with empty key sets.
LoadNone(f) == NoKeys

\* Lines 257-259: load the key set of each raw table.
LoadAll(f) ==
  [n \in Names |-> load_existing_keys(f[PathOf(n)], PathOf(n))]

Start(p) ==
  /\ ~Running(p)
  /\ proc' = [proc EXCEPT ![p] =
                [Local("repo") EXCEPT !.i = 1, !.all_keys = LoadAll(files)]]
  /\ obs' = [obs EXCEPT ![p] =
               [NoObs EXCEPT !.after = win.prev,
                             !.derived0 = <<summary_csv, monthly_csv,
                                            summary_json>>]]
  /\ UNCHANGED win
  /\ overlapped' = (overlapped \/ \E q \in Procs \ {p} : Running(q))
  /\ UNCHANGED <<TARGET_REPOS, today, api, units, files, summary_csv,
                 monthly_csv, summary_json>>

\* How a run that exits is entered in the window: how the latest run ended,
\* and whether a run of the window was killed, before and after writing rows.
Logged(p, how) ==
  [win EXCEPT !.prev = how,
               !.killed = @ \/ how = "killed",
               !.killedWrote = @ \/ (how = "killed" /\ obs[p].added > 0)]

\* Line 262, the unpacking succeeds.
ParseRepo(p) ==
  /\ proc[p].pc = "repo"
  /\ ~UnpackFails(TARGET_REPOS[proc[p].i])
  /\ LET pr == parse_repo(TARGET_REPOS[proc[p].i])
     IN proc' = [proc EXCEPT ![p].pc = "fetch", ![p].c = 1,
                             ![p].repo_full = RepoFull(pr[1], pr[2])]
  /\ UNCHANGED <<TARGET_REPOS, today, api, units, files, summary_csv,
                 monthly_csv, summary_json, obs, win, overlapped>>

\* The unpacking error is swallowed and the loop goes on.
AfterUnpackErrorSkips(r) ==
  IF r.i < Len(TARGET_REPOS)
  THEN [Local("repo") EXCEPT !.i = r.i + 1, !.all_keys = r.all_keys]
  ELSE [Local("summary") EXCEPT !.all_keys = r.all_keys]

\* Where main is after an unpacking error: nothing catches it.
AfterUnpackError(r) == [Local("aborted") EXCEPT !.i = r.i]

\* Line 262, the unpacking raises ValueError.
ParseAbort(p) ==
  /\ proc[p].pc = "repo"
  /\ UnpackFails(TARGET_REPOS[proc[p].i])
  /\ proc' = [proc EXCEPT ![p] = AfterUnpackError(@)]
  /\ win' = Logged(p, "aborted")
  /\ UNCHANGED <<TARGET_REPOS, today, api, units, files, summary_csv,
                 monthly_csv, summary_json, obs, overlapped>>

\* Where main is after a collector call has returned: the next collector,
\* the next repository, or the aggregators.
NextCall(r) ==
  IF r.c < NColl
  THEN [r EXCEPT !.pc = "fetch", !.c = @ + 1, !.k = 0, !.items = <<>>,
                 !.day = <<>>]
  ELSE IF r.i < Len(TARGET_REPOS)
  THEN [Local("repo") EXCEPT !.i = r.i + 1, !.all_keys = r.all_keys]
  ELSE [Local("summary") EXCEPT !.all_keys = r.all_keys]

\* The exception of a collector is not caught.
AfterExceptionPropagates(r) == Local("aborted")

\* Lines 269-270: where main is after a collector call has raised.
AfterException(r) == NextCall(r)

CollName(p) == COLLECTORS[proc[p].c].name
CollPath(p) == COLLECTORS[proc[p].c].path
Endpoint(p) == <<proc[p].repo_full, CollName(p)>>

\* What get() may return for the endpoint of p's current call.
Served(p) ==
  IF api[Endpoint(p)].st = "unknown"
  THEN Responses(CollName(p), MaxUnits - units)
  ELSE {api[Endpoint(p)]}

Observe(p, resp) ==
  /\ units' = IF api[Endpoint(p)].st = "unknown"
              THEN units + Cost(resp) ELSE units
  /\ api' = [api EXCEPT ![Endpoint(p)] = resp]

Called(p) ==
  [obs[p] EXCEPT !.invoked = @ \cup {<<proc[p].i, proc[p].c>>},
                 !.len0 = Len(files[CollPath(p)]),
                 !.keys0 = proc[p].all_keys[CollName(p)]]

\* How the latest collector call ended.  For a call that raised: the item
\* it raised at (0: in get()), the list it iterated, and the table length
\* and key set at the call and at the exception.
Returned(p) == [out |-> "returned", i |-> proc[p].i, c |-> proc[p].c]
Raised(p, at, items, len0, keys0) ==
  [out |-> "raised", i |-> proc[p].i, c |-> proc[p].c, at |-> at,
   items |-> items, repo_full |-> proc[p].repo_full, day |-> proc[p].day,
   len0 |-> len0, keys0 |-> keys0,
   len1 |-> Len(files[CollPath(p)]),
   keys1 |-> proc[p].all_keys[CollName(p)]]

\* utc_today() is read by the collectors that stamp their rows.
Stamp(name) == IF name \in {"Views", "Clones"} THEN <<>> ELSE today

\* A collector is called and get() raises.
FetchRaise(p) ==
  /\ proc[p].pc = "fetch"
  /\ ErrResp \in Served(p)
  /\ Observe(p, ErrResp)
  /\ proc' = [proc EXCEPT ![p] = AfterException(@)]
  /\ obs' = [obs EXCEPT ![p] =
               [Called(p) EXCEPT
                  !.failed = @ \cup {<<proc[p].i, proc[p].c>>},
                  !.last = Raised(p, 0, <<>>, Len(files[CollPath(p)]),
                                  proc[p].all_keys[CollName(p)])]]
  /\ UNCHANGED <<TARGET_REPOS, today, files, summary_csv, monthly_csv,
                 summary_json, win, overlapped>>

\* A collector is called and get() returns; an empty list ends the call.
FetchOk(p) ==
  /\ proc[p].pc = "fetch"
  /\ \E resp \in Served(p) :
       /\ resp.st = "ok"
       /\ Observe(p, resp)
       /\ LET items == Iterated(CollName(p), resp)
          IN IF items = <<>>
             THEN /\ proc' = [proc EXCEPT ![p] = NextCall(@)]
                  /\ obs' = [obs EXCEPT ![p] =
                               [Called(p) EXCEPT !.last = Returned(p)]]
             ELSE /\ proc' = [proc EXCEPT ![p].pc = "iter", ![p].k = 1,
                                          ![p].items = items,
                                          ![p].day = Stamp(CollName(p))]
                  /\ obs' = [obs EXCEPT ![p] = Called(p)]
  /\ UNCHANGED <<TARGET_REPOS, today, files, summary_csv, monthly_csv,
                 summary_json, win, overlapped>>

\* The outcome of the loop body on the item p's collector is at.
Outcome(p) ==
  Body(CollName(p), proc[p].items[proc[p].k], proc[p].repo_full, proc[p].day,
       proc[p].all_keys[CollName(p)])

\* The loop moves to the next item, or the collector returns.
NextItem(r) ==
  IF r.k < Len(r.items) THEN [r EXCEPT !.k = @ + 1] ELSE NextCall(r)

Finish(p, n) ==
  LET o == [obs[p] EXCEPT
              !.added = @ + n,
              !.skipped = @ + (1 - n),
              !.appended = IF n = 1 THEN @ \cup {<<proc[p].i, proc[p].c>>}
                           ELSE @]
  IN IF proc[p].k < Len(proc[p].items) THEN o
     ELSE [o EXCEPT !.last = Returned(p)]

IterRaise(p) ==
  /\ proc[p].pc = "iter"
  /\ Outcome(p).kind = "raise"
  /\ proc' = [proc EXCEPT ![p] = AfterException(@)]
  /\ obs' = [obs EXCEPT
               ![p].failed = @ \cup {<<proc[p].i, proc[p].c>>},
               ![p].last = Raised(p, proc[p].k, proc[p].items, obs[p].len0,
                                  obs[p].keys0)]
  /\ UNCHANGED <<TARGET_REPOS, today, api, units, files, summary_csv,
                 monthly_csv, summary_json, win, overlapped>>

IterSkip(p) ==
  /\ proc[p].pc = "iter"
  /\ Outcome(p).kind = "skip"
  /\ proc' = [proc EXCEPT ![p] = NextItem(@)]
  /\ obs' = [obs EXCEPT ![p] = Finish(p, 0)]
  /\ UNCHANGED <<TARGET_REPOS, today, api, units, files, summary_csv,
                 monthly_csv, summary_json, win, overlapped>>

IterAppend(p) ==
  /\ proc[p].pc = "iter"
  /\ Outcome(p).kind = "append"
  /\ files' = [files EXCEPT ![CollPath(p)] = append_csv(@, Outcome(p).row)]
  /\ proc' = [proc EXCEPT ![p] =
                NextItem([@ EXCEPT !.all_keys[CollName(p)] =
                                      AddKey(@, Outcome(p).key)])]
  /\ obs' = [obs EXCEPT ![p] = Finish(p, 1)]
  /\ UNCHANGED <<TARGET_REPOS, today, api, units, summary_csv,
                 monthly_csv, summary_json, win, overlapped>>

\* What an aggregator leaves in the run's record: that it ran.
Ran(p, which) == [obs EXCEPT ![p].aggs = @ \cup {which}]

\* Lines 274-276.
GenSummary(p) ==
  /\ proc[p].pc = "summary"
  /\ summary_csv' = generate_summary(files)
  /\ proc' = [proc EXCEPT ![p].pc = "monthly"]
  /\ obs' = Ran(p, "summary")
  /\ UNCHANGED <<TARGET_REPOS, today, api, units, files, monthly_csv,
                 summary_json, win, overlapped>>

GenMonthly(p) ==
  /\ proc[p].pc = "monthly"
  /\ monthly_csv' = generate_monthly(files)
  /\ proc' = [proc EXCEPT ![p].pc = "json"]
  /\ obs' = Ran(p, "monthly")
  /\ UNCHANGED <<TARGET_REPOS, today, api, units, files, summary_csv,
                 summary_json, win, overlapped>>

GenJson(p) ==
  /\ proc[p].pc = "json"
  /\ summary_json' =
       generate_json(summary_csv, files["stats/traffic_views.csv"],
                     files["stats/traffic_clones.csv"], monthly_csv, today)
  /\ proc' = [proc EXCEPT ![p] = Local("done")]
  /\ obs' = Ran(p, "json")
  /\ win' = Logged(p, "done")
  /\ UNCHANGED <<TARGET_REPOS, today, api, units, files, summary_csv,
                 monthly_csv, overlapped>>

\* The process is killed between two steps.
Kill(p) ==
  /\ Running(p)
  /\ proc' = [proc EXCEPT ![p] = Local("killed")]
  /\ win' = Logged(p, "killed")
  /\ UNCHANGED <<TARGET_REPOS, today, api, units, files, summary_csv,
                 monthly_csv, summary_json, obs, overlapped>>

\* ------------------------------------------- an uninterrupted run
\* The for loop of a collector over `items`, from table `rows` and key set
\* `keys`: it ends at the end of the list or at the first exception.
RECURSIVE Loop(_, _, _, _, _, _)
Loop(name, items, repo_full, day, rows, keys) ==
  IF items = <<>> THEN [rows |-> rows, keys |-> keys]
  ELSE LET out == Body(name, Head(items), repo_full, day, keys)
       IN CASE out.kind = "raise" -> [rows |-> rows, keys |-> keys]
            [] out.kind = "skip" ->
                 Loop(name, Tail(items), repo_full, day, rows, keys)
            [] out.kind = "append" ->
                 Loop(name, Tail(items), repo_full, day,
                      append_csv(rows, out.row), AddKey(keys, out.key))

\* One collector call inside the try of main, on tables f and key sets ks.
Call(n, repo_full, st) ==
  LET name == COLLECTORS[n].name
      path == COLLECTORS[n].path
      resp == api[<<repo_full, name>>]
  IN IF resp.st # "ok" THEN st
     ELSE LET r == Loop(name, Iterated(name, resp), repo_full, Stamp(name),
                        st.f[path], st.ks[name])
          IN [f |-> [st.f EXCEPT ![path] = r.rows],
              ks |-> [st.ks EXCEPT ![name] = r.keys]]

RECURSIVE Calls(_, _, _)
Calls(n, repo_full, st) ==
  IF n > NColl THEN st ELSE Calls(n + 1, repo_full, Call(n, repo_full, st))

\* The loop of main over TARGET_REPOS from position i: it ends at the end
\* of the list or at the first identifier that does not unpack.
RECURSIVE ReposFrom(_, _)
ReposFrom(i, st) ==
  IF i > Len(TARGET_REPOS) \/ UnpackFails(TARGET_REPOS[i]) THEN st
  ELSE LET pr == parse_repo(TARGET_REPOS[i])
       IN ReposFrom(i + 1, Calls(1, RepoFull(pr[1], pr[2]), st))

\* The raw tables after lines 257-270 of main have run on tables f, with
\* upstream as observed and the date as it is.
RunFrom(f) == ReposFrom(1, [f |-> f, ks |-> LoadAll(f)]).f

\* ----------------------------------------------------- environment
\* Upstream data changes between two runs: what was observed no longer holds.
UpstreamChange ==
  /\ \A p \in Procs : ~Running(p)
  /\ \E e \in Endpoints : api[e].st # "unknown"
  /\ api' = [e \in Endpoints |-> Unknown]
  /\ win' = NewWindow(files)
  /\ UNCHANGED <<TARGET_REPOS, today, units, files, summary_csv,
                 monthly_csv, summary_json, proc, obs, overlapped>>

\* The UTC date changes between two runs, and upstream data with it.
DayTick ==
  /\ \A p \in Procs : ~Running(p)
  /\ NextDay(today) # today
  /\ today' = NextDay(today)
  /\ api' = [e \in Endpoints |-> Unknown]
  /\ win' = NewWindow(files)
  /\ UNCHANGED <<TARGET_REPOS, units, files, summary_csv,
                 monthly_csv, summary_json, proc, obs, overlapped>>

\* One step of an invocation of main.
Step(p) ==
  \/ Start(p)
  \/ ParseRepo(p)
  \/ ParseAbort(p)
  \/ FetchRaise(p)
  \/ FetchOk(p)
  \/ IterRaise(p)
  \/ IterSkip(p)
  \/ IterAppend(p)
  \/ GenSummary(p)
  \/ GenMonthly(p)
  \/ GenJson(p)

\* Runs that never overlap, each running to its end, upstream and the date
\* changing between them.
Next == Step(1) \/ UpstreamChange \/ DayTick
Spec == Init /\ [][Next]_vars

\* Runs that never overlap and may be killed between any two steps, started
\* on tables that earlier runs have filled.
EarlierTables ==
  [q \in RawPaths |->
     CASE q = "stats/traffic_views.csv" ->
            << [date |-> Jan1, repo |-> <<"o", "/", "a">>, views |-> str(2),
                unique_visitors |-> str(1)] >>
       [] q = "stats/traffic_referrers.csv" ->
            << [date |-> Jan2, repo |-> <<"o", "/", "a">>,
                referrer |-> <<"g">>, views |-> str(1),
                unique_visitors |-> str(1)] >>
       [] OTHER -> <<>>]

InitCrash ==
  /\ TARGET_REPOS \in {<<RawA>>, <<RawA, RawB>>, <<RawA, RawNoSlash>>}
  /\ files \in {[q \in RawPaths |-> <<>>], EarlierTables}
  /\ summary_csv = generate_summary(files)
  /\ monthly_csv = generate_monthly(files)
  /\ summary_json =
       generate_json(summary_csv, files["stats/traffic_views.csv"],
                     files["stats/traffic_clones.csv"], monthly_csv, Jan2)
  /\ Fresh

NextCrash == Step(1) \/ Kill(1)
SpecCrash == InitCrash /\ [][NextCrash]_vars

\* Two invocations against the same directory, their steps interleaved.
InitConc ==
  /\ TARGET_REPOS = <<RawA>>
  /\ files = [q \in RawPaths |-> <<>>]
  /\ summary_csv = <<>>
  /\ monthly_csv = <<>>
  /\ summary_json = EmptyJson
  /\ Fresh
StartOnce(p) == proc[p].pc = "idle" /\ Start(p)
Rest(p) ==
  \/ ParseRepo(p)
  \/ FetchRaise(p)
  \/ FetchOk(p)
  \/ IterRaise(p)
  \/ IterSkip(p)
  \/ IterAppend(p)
  \/ GenSummary(p)
  \/ GenMonthly(p)
  \/ GenJson(p)
NextConc == \E p \in Procs : StartOnce(p) \/ Rest(p)
SpecConc == InitConc /\ [][NextConc]_vars

\* ------------------------------------------------------------ claims
Rows(q) == files[q]
Keys(q) == {KeyOf(q, Rows(q)[n]) : n \in 1..Len(Rows(q))}

\* No two rows of table q have the same natural key.
Unique(q) ==
  \A j, k \in 1..Len(Rows(q)) :
    j # k => KeyOf(q, Rows(q)[j]) # KeyOf(q, Rows(q)[k])
AllUnique == \A q \in RawPaths : Unique(q)

IsPrefix(a, b) == Len(a) <= Len(b) /\ SubSeq(b, 1, Len(a)) = a

ExitedNormally(p) == proc[p].pc \in {"done", "aborted"}

\* C1. Key uniqueness: after any sequence of runs that do not overlap,
\* whatever upstream answers (repeated items, the same referrer, path or
\* asset on the same date with other counts, failing collectors), each raw
\* table holds at most one row per natural key.
C1_KeyUniqueness == AllUnique

\* A run has ended after skipping items whose key was known and appending
\* others, on tables an earlier run had filled from other upstream data.
C1_Witness ==
  /\ proc[1].pc = "done"
  /\ obs[1].skipped > 0
  /\ obs[1].added > 0
  /\ \E q \in RawPaths : win.base[q] # <<>>

\* C2. Idempotence: a run of main that follows a run that ended, on the
\* same date and with the same upstream answers, appends no row to any raw
\* table, and leaves summary.csv, monthly.csv and the repos of summary.json
\* as the first run left them.
C2_Idempotence ==
  \A p \in Procs :
    (ExitedNormally(p) /\ obs[p].after \in {"done", "aborted"}) =>
      /\ obs[p].added = 0
      /\ summary_csv = obs[p].derived0[1]
      /\ monthly_csv = obs[p].derived0[2]
      /\ summary_json.repos = obs[p].derived0[3].repos

\* A second run has completed over tables the first one filled, every item
\* it was served having been skipped.
C2_Witness ==
  /\ proc[1].pc = "done"
  /\ obs[1].after = "done"
  /\ obs[1].skipped >= 2
  /\ \E q \in RawPaths : Len(Rows(q)) >= 2

\* C3. The raw tables are append-only: in every step (an append, a failing
\* collector, an aggregator, a start, a change upstream) each raw table
\* before the step is a prefix of the table after it.
C3_AppendOnly ==
  [][\A q \in RawPaths : IsPrefix(files[q], files'[q])]_vars

\* A run has appended rows to tables that already held rows, and its
\* aggregators have run.
C3_Witness ==
  /\ proc[1].pc = "done"
  /\ obs[1].added > 0
  /\ obs[1].aggs = {"summary", "monthly", "json"}
  /\ \E q \in RawPaths : win.base[q] # <<>> /\ Len(Rows(q)) > Len(win.base[q])

\* C8. Two interleaved runs can leave two rows with one natural key; as
\* long as no run has started while another was running, every raw table
\* has unique keys.
C8_DuplicatesOnlyWhenOverlapping == ~overlapped => AllUnique

\* Two runs have overlapped and a raw table holds a natural key twice.
C8_Witness == overlapped /\ ~AllUnique

Pairings == (1..Len(TARGET_REPOS)) \X (1..NColl)

\* The pairings main has gone through before it calls collector c for the
\* identifier at position i.
Before(i, c) == {x \in Pairings : x[1] < i \/ (x[1] = i /\ x[2] < c)}

Unpacks(i) == ~UnpackFails(TARGET_REPOS[i])

\* C4. Partial failure isolation: a collector that raises never makes main
\* leave out a pairing or the aggregators.  At every point of a run the
\* collectors called so far are exactly the pairings before that point,
\* whichever of them raised; a run that stops early stops at an identifier
\* that does not unpack; a run that completes has called every pairing, has
\* run the three aggregators, and the raw tables hold every row an
\* uninterrupted pass over upstream's answers yields.
C4_FailureIsolation ==
  \A p \in Procs :
    LET r == proc[p]
        o == obs[p]
    IN /\ o.failed \subseteq o.invoked
       /\ r.pc = "repo" => o.invoked = Before(r.i, 1)
       /\ r.pc = "fetch" => o.invoked = Before(r.i, r.c)
       /\ r.pc = "iter" => o.invoked = Before(r.i, r.c) \cup {<<r.i, r.c>>}
       /\ r.pc \in {"summary", "monthly", "json", "done"} =>
            o.invoked = Pairings
       /\ r.pc = "aborted" =>
            r.i \in 1..Len(TARGET_REPOS) /\ ~Unpacks(r.i)
       /\ r.pc = "done" =>
            /\ o.aggs = {"summary", "monthly", "json"}
            /\ files = RunFrom(win.base)

\* A run has completed in which a collector raised for the first
\* repository and a collector appended rows for the second one.
C4_Witness ==
  /\ proc[1].pc = "done"
  /\ \E x \in obs[1].failed : \E y \in obs[1].appended : x[1] < y[1]

\* The key a collector computes for an item.
ItemKey(name, item, repo_full, day) ==
  CASE name \in {"Views", "Clones"} -> <<DateOf(item.timestamp), repo_full>>
    [] name = "Referrers" -> <<day, repo_full, Get(item, "referrer", <<>>)>>
    [] name = "Paths" -> <<day, repo_full, Get(item, "path", <<>>)>>
    [] name = "Releases" ->
         <<day, repo_full, item.tag, Get(item.asset, "name", <<>>)>>

\* The keys, not known when the call began, of the items before the one
\* the call raised at.
KeysBeforeFailure(l) ==
  {ItemKey(COLLECTORS[l.c].name, l.items[n], l.repo_full, l.day) :
     n \in 1..(l.at - 1)} \ l.keys0

\* C5 as claimed: a collector call that ends in an exception, wherever it
\* occurs, has added no row to its table and no key to its key set.
C5_RaisedAddsNothing ==
  \A p \in Procs :
    obs[p].last.out = "raised" =>
      obs[p].last.len1 = obs[p].last.len0 /\ obs[p].last.keys1 = obs[p].last.keys0

\* C5, amended. A call that raises in get() has added no row and no key.
\* A call that raises while iterating has added exactly one row and one key
\* for each distinct new key among the items before the failing one, and
\* nothing for the failing item or the items after it.
C5_RaisedKeepsEarlierRows ==
  \A p \in Procs :
    LET l == obs[p].last
    IN l.out = "raised" =>
         /\ l.keys1 = l.keys0 \cup KeysBeforeFailure(l)
         /\ l.len1 = l.len0 + Cardinality(KeysBeforeFailure(l))
         /\ l.at = 0 => (l.len1 = l.len0 /\ l.keys1 = l.keys0)

\* A call has raised at its second or a later item after appending a row.
C5_Witness ==
  /\ obs[1].last.out = "raised"
  /\ obs[1].last.at > 1
  /\ obs[1].last.len1 > obs[1].last.len0

Views == "stats/traffic_views.csv"
Clones == "stats/traffic_clones.csv"
Releases == "stats/releases_daily.csv"
Summed == {Views, Clones, Releases}

\* The positions in table q of the rows of `repo`, and of those of them
\* dated in `month`.
RowsOfRepo(q, repo) == {n \in 1..Len(Rows(q)) : Rows(q)[n].repo = repo}
RowsOfMonth(q, repo, month) ==
  {n \in RowsOfRepo(q, repo) : MonthOf(Rows(q)[n].date) = month}

\* The sum of column `field` of table q over the rows at positions S.
RECURSIVE Total(_, _, _)
Total(q, field, S) ==
  IF S = {} THEN 0
  ELSE LET n == CHOOSE n \in S : TRUE
       IN int(Rows(q)[n][field]) + Total(q, field, S \ {n})

SummedRepos ==
  UNION {{Rows(q)[n].repo : n \in 1..Len(Rows(q))} : q \in Summed}
SummedDates(repo) ==
  UNION {{Rows(q)[n].date : n \in RowsOfRepo(q, repo)} : q \in Summed}
SummedBuckets ==
  UNION {{<<Rows(q)[n].repo, MonthOf(Rows(q)[n].date)>> :
            n \in 1..Len(Rows(q))} : q \in Summed}

\* summary.csv is what the raw tables say: one row per repository with a
\* row in views, clones or releases, holding the column sums over that
\* repository's rows and its latest date, in order of repository.
SummaryReflectsRaw ==
  /\ Len(summary_csv) = Cardinality(SummedRepos)
  /\ \A n \in 1..Len(summary_csv) :
       LET row == summary_csv[n]
           r == row.repo
       IN /\ r \in SummedRepos
          /\ row.total_views = str(Total(Views, "views", RowsOfRepo(Views, r)))
          /\ row.total_unique_visitors =
               str(Total(Views, "unique_visitors", RowsOfRepo(Views, r)))
          /\ row.total_clones =
               str(Total(Clones, "clones", RowsOfRepo(Clones, r)))
          /\ row.total_unique_cloners =
               str(Total(Clones, "unique_cloners", RowsOfRepo(Clones, r)))
          /\ row.total_downloads =
               str(Total(Releases, "download_count", RowsOfRepo(Releases, r)))
          /\ row.last_date \in SummedDates(r)
          /\ \A d \in SummedDates(r) : ~StrLess(row.last_date, d)
  /\ \A j, k \in 1..Len(summary_csv) :
       j < k => StrLess(summary_csv[j].repo, summary_csv[k].repo)

\* monthly.csv is what the raw tables say: one row per (repository, month)
\* occurring in views, clones or releases, holding the column sums over the
\* rows of that bucket, in order of (repository, month).
MonthlyReflectsRaw ==
  /\ Len(monthly_csv) = Cardinality(SummedBuckets)
  /\ \A n \in 1..Len(monthly_csv) :
       LET row == monthly_csv[n]
           r == row.repo
           m == row.month
       IN /\ <<r, m>> \in SummedBuckets
          /\ row.views = str(Total(Views, "views", RowsOfMonth(Views, r, m)))
          /\ row.unique_visitors =
               str(Total(Views, "unique_visitors", RowsOfMonth(Views, r, m)))
          /\ row.clones =
               str(Total(Clones, "clones", RowsOfMonth(Clones, r, m)))
          /\ row.unique_cloners =
               str(Total(Clones, "unique_cloners", RowsOfMonth(Clones, r, m)))
          /\ row.downloads =
               str(Total(Releases, "download_count",
                         RowsOfMonth(Releases, r, m)))
  /\ \A j, k \in 1..Len(monthly_csv) :
       j < k => PairLess(<<monthly_csv[j].repo, monthly_csv[j].month>>,
                         <<monthly_csv[k].repo, monthly_csv[k].month>>)

\* C6. No drift of the derived tables: when a run of main completes,
\* summary.csv and monthly.csv are exactly what the raw tables say,
\* whatever they held before the run.
C6_DerivedReflectRaw ==
  \A p \in Procs :
    proc[p].pc = "done" => SummaryReflectsRaw /\ MonthlyReflectsRaw

\* A run has completed and rewritten the derived tables it found, with a
\* repository that has two view rows and a release row, in two months.
C6_Witness ==
  /\ proc[1].pc = "done"
  /\ obs[1].derived0[1] # summary_csv
  /\ obs[1].derived0[2] # monthly_csv
  /\ \E r \in SummedRepos :
       /\ Cardinality(RowsOfRepo(Views, r)) = 2
       /\ RowsOfRepo(Releases, r) # {}
       /\ Cardinality({b \in SummedBuckets : b[1] = r}) = 2

\* The rows of table q of one repository, in table order.
OfRepo(q, repo) ==
  LET Same(row) == row.repo = repo IN SelectSeq(Rows(q), Same)
MonthlyOfRepo(repo) ==
  LET Same(row) == row.repo = repo IN SelectSeq(monthly_csv, Same)

\* C7. JSON export join: when generate_json has run, the keys of
\* summary.json are the repositories of summary.csv, no others even if they
\* have raw rows; each entry holds the totals of its summary row, and its
\* daily_views, daily_clones and monthly lists are the view, clone and
\* monthly rows of that repository in table order.
C7_JsonJoin ==
  \A p \in Procs :
    proc[p].pc = "done" =>
      LET repos == summary_json.repos
      IN /\ DOMAIN repos = {summary_csv[n].repo : n \in 1..Len(summary_csv)}
         /\ \A n \in 1..Len(summary_csv) :
              LET row == summary_csv[n]
                  e == repos[row.repo]
              IN /\ str(e.total_views) = row.total_views
                 /\ str(e.total_unique_visitors) = row.total_unique_visitors
                 /\ str(e.total_clones) = row.total_clones
                 /\ str(e.total_unique_cloners) = row.total_unique_cloners
                 /\ str(e.total_downloads) = row.total_downloads
         /\ \A r \in DOMAIN repos :
              LET v == OfRepo(Views, r)
                  c == OfRepo(Clones, r)
                  m == MonthlyOfRepo(r)
              IN /\ repos[r].daily_views =
                      [n \in 1..Len(v) |->
                         [date |-> v[n].date, views |-> int(v[n].views),
                          unique |-> int(v[n].unique_visitors)]]
                 /\ repos[r].daily_clones =
                      [n \in 1..Len(c) |->
                         [date |-> c[n].date, clones |-> int(c[n].clones),
                          unique |-> int(c[n].unique_cloners)]]
                 /\ repos[r].monthly =
                      [n \in 1..Len(m) |->
                         [month |-> m[n].month, views |-> int(m[n].views),
                          clones |-> int(m[n].clones),
                          downloads |-> int(m[n].downloads)]]

\* generate_json has run: a repository with view rows is exported with its
\* daily series, and a repository that has rows in the referrers table only
\* is not in the export.
C7_Witness ==
  /\ proc[1].pc = "done"
  /\ \E r \in DOMAIN summary_json.repos :
       Len(summary_json.repos[r].daily_views) = 2
  /\ \E n \in 1..Len(Rows("stats/traffic_referrers.csv")) :
       Rows("stats/traffic_referrers.csv")[n].repo
         \notin DOMAIN summary_json.repos

\* The columns of a raw table (the header its collector writes).
Header(q) ==
  CASE q = "stats/traffic_views.csv" ->
         {"date", "repo", "views", "unique_visitors"}
    [] q = "stats/traffic_clones.csv" ->
         {"date", "repo", "clones", "unique_cloners"}
    [] q = "stats/traffic_referrers.csv" ->
         {"date", "repo", "referrer", "views", "unique_visitors"}
    [] q = "stats/traffic_paths.csv" ->
         {"date", "repo", "path", "title", "views", "unique_visitors"}
    [] q = "stats/releases_daily.csv" ->
         {"date", "repo", "tag", "asset_name", "download_count"}

CompleteRows ==
  \A q \in RawPaths : \A n \in 1..Len(Rows(q)) : DOMAIN Rows(q)[n] = Header(q)

DerivedCurrent ==
  /\ summary_csv = generate_summary(files)
  /\ monthly_csv = generate_monthly(files)
  /\ summary_json = generate_json(summary_csv, Rows(Views), Rows(Clones),
                                  monthly_csv, today)

\* C9. Crash recovery: a run killed between two steps leaves every raw
\* table with unique natural keys and complete rows; no step of any run
\* removes or rewrites a row the killed run wrote; and when a later run
\* completes, upstream and the date being the same, the raw tables are those
\* of one uninterrupted run from the tables before the killed run, with
\* unique keys, and the derived tables are regenerated from them.
C9_CrashRecovery ==
  /\ [](proc[1].pc = "killed" => AllUnique /\ CompleteRows)
  /\ []((proc[1].pc = "done" /\ win.killed) =>
          /\ files = RunFrom(win.base)
          /\ AllUnique
          /\ DerivedCurrent)
  /\ [][\A q \in RawPaths : IsPrefix(files[q], files'[q])]_vars

\* A run was killed after it had written rows, and the next run has
\* completed, having found the killed run's rows and appended further ones.
C9_Witness ==
  /\ proc[1].pc = "done"
  /\ win.killedWrote
  /\ obs[1].after = "killed"
  /\ obs[1].skipped > 0
  /\ obs[1].added > 0

\* C10. An identifier that does not unpack aborts the run where main
\* reaches it: the run has called every collector for the identifiers before
\* it and none for it or a later one, the raw tables hold the rows of the
\* earlier identifiers, no aggregator has run and the derived tables are as
\* the run found them.  No collector is ever called, and no aggregator ever
\* run, past an identifier that does not unpack.
C10_UnpackErrorAborts ==
  \A p \in Procs :
    LET r == proc[p]
        o == obs[p]
    IN /\ r.pc = "aborted" =>
            /\ r.i \in 1..Len(TARGET_REPOS)
            /\ ~Unpacks(r.i)
            /\ o.invoked = Before(r.i, 1)
            /\ o.aggs = {}
            /\ <<summary_csv, monthly_csv, summary_json>> = o.derived0
            /\ files = RunFrom(win.base)
       /\ \A x \in o.invoked : \A m \in 1..x[1] : Unpacks(m)
       /\ o.aggs # {} => \A m \in 1..Len(TARGET_REPOS) : Unpacks(m)

\* A run has aborted at the second of three identifiers after appending
\* rows for the first.
C10_Witness ==
  /\ proc[1].pc = "aborted"
  /\ proc[1].i = 2
  /\ Len(TARGET_REPOS) = 3
  /\ obs[1].added > 0

====
